---- MODULE Spec2Model ----
(***************************************************************************)
(* A model of sheets-automation.js: createAndUpdateSpreadsheet and the     *)
(* data-operation engine behind it (validateConfig, processDataOperations, *)
(* readCsvFile, replaceEntireSheet, replaceAtCell, getEndCell and the      *)
(* column arithmetic).                                                     *)
(*                                                                         *)
(* JavaScript values are modelled as follows.  An object is a record whose *)
(* DOMAIN is the set of its own keys, so an absent key is a key outside    *)
(* the DOMAIN.  A string that the code only compares or passes on is a TLA *)
(* string; a string the code takes apart (a cell id, a column) is the      *)
(* sequence of its UTF-16 char codes, so "A1" is <<65, 49>>.               *)
(*                                                                         *)
(* One run of createAndUpdateSpreadsheet is one behaviour: each action is  *)
(* the synchronous stretch of code between two awaits.  A remote call is   *)
(* appended to `log` as "pending" when it is issued and is settled ("ok"   *)
(* or "error") by the action that resumes after the await.                 *)
(***************************************************************************)
EXTENDS Integers, Sequences, FiniteSets, TLC

VARIABLES
    config,     \* the argument of createAndUpdateSpreadsheet
    pc,         \* where the run stands
    error,      \* the error the run threw (NoError while none)
    log,        \* every call issued so far, in issue order, with its status
    newFile,    \* response.data.id of drive.files.copy ("" before)
    sheetsMap,  \* processDataOperations' sheetsMap: title -> sheetId
    opIdx,      \* 1-based index of the operation the for-loop is at
    csvData,    \* csvData of the current operation
    result,     \* the URL returned ("" while none)
    algPc,      \* cell-reference algebra harness: position
    algIn,      \* cell-reference algebra harness: input
    algOut      \* cell-reference algebra harness: output

vars == <<config, pc, error, log, newFile, sheetsMap, opIdx, csvData, result,
          algPc, algIn, algOut>>

runVars == <<config, pc, error, log, newFile, sheetsMap, opIdx, csvData, result>>
algVars == <<algPc, algIn, algOut>>

----------------------------------------------------------------------------
(* Bounds of the model *)

MaxOps == 3

\* Cell-reference algebra: the largest column number and the longest column
\* string tried, and the largest data block (rows, cells per row).
MaxColumn == 18278
MaxLetters == 3
MaxRows == 2
MaxRowLen == 3

----------------------------------------------------------------------------
(* Strings as char codes *)

IsUpper(c) == c >= 65 /\ c <= 90
IsDigit(c) == c >= 48 /\ c <= 57

\* The empty JS string / empty array.
Empty == <<>>

----------------------------------------------------------------------------
(* Cell reference algebra: part_000 lines 364-425 *)

\* columnToNumber(column): Horner fold of (charCode - 64), base 26.
RECURSIVE ColumnFold(_, _, _)
ColumnFold(column, i, acc) ==
    IF i > Len(column) THEN acc
    ELSE ColumnFold(column, i + 1, acc * 26 + (column[i] - 64))

columnToNumber(column) == ColumnFold(column, 1, 0)

\* Variant of LetterLoop: plain base 26, the digit taken as column % 26.
RECURSIVE LetterLoopPlain(_, _)
LetterLoopPlain(column, letter) ==
    IF column > 0
    THEN LET temp == column % 26
         IN  LetterLoopPlain((column - temp) \div 26, <<temp + 65>> \o letter)
    ELSE letter

\* getColumnLetter(column): while (column > 0) peel off the last letter.
RECURSIVE LetterLoop(_, _)
LetterLoop(column, letter) ==
    IF column > 0
    THEN LET temp == (column - 1) % 26
         IN  LetterLoop((column - temp - 1) \div 26, <<temp + 65>> \o letter)
    ELSE letter

getColumnLetter(column) == LetterLoop(column, Empty)

\* Math.max over two numbers.
Max(a, b) == IF a >= b THEN a ELSE b

\* Variant of getMaxRowLength: the length of the first row.
getMaxRowLengthFirst(data) == IF Len(data) = 0 THEN 0 ELSE Len(data[1])

\* getMaxRowLength(data): running maximum of row.length, from 0.
RECURSIVE MaxRowLoop(_, _, _)
MaxRowLoop(data, i, maxLength) ==
    IF i > Len(data) THEN maxLength
    ELSE MaxRowLoop(data, i + 1, Max(maxLength, Len(data[i])))

getMaxRowLength(data) == MaxRowLoop(data, 1, 0)

\* Character classes of the two patterns of getEndCell: [A-Z] and \d.
InClass(c, class) == IF class = "A-Z" THEN IsUpper(c) ELSE IsDigit(c)

\* String.prototype.match with a non-global /[class]+/ : the leftmost maximal
\* run of characters of the class, or NoMatch (null) when there is none.
NoMatch == <<-1>>

RECURSIVE RunEnd(_, _, _)
RunEnd(s, i, class) ==
    IF i < Len(s) /\ InClass(s[i + 1], class) THEN RunEnd(s, i + 1, class) ELSE i

MatchRun(s, class) ==
    LET starts == {i \in 1..Len(s) : InClass(s[i], class)}
    IN  IF starts = {} THEN NoMatch
        ELSE LET first == CHOOSE i \in starts : \A j \in starts : i <= j
             IN  SubSeq(s, first, RunEnd(s, first, class))

\* parseInt of a run of decimal digits.
RECURSIVE ParseIntLoop(_, _, _)
ParseIntLoop(digits, i, acc) ==
    IF i > Len(digits) THEN acc
    ELSE ParseIntLoop(digits, i + 1, acc * 10 + (digits[i] - 48))

parseInt(digits) == ParseIntLoop(digits, 1, 0)

\* Number-to-string of an integer inside a template literal: `${n}`.
RECURSIVE DigitsOf(_)
DigitsOf(n) ==
    IF n < 10 THEN <<48 + n>> ELSE DigitsOf(n \div 10) \o <<48 + (n % 10)>>

NumberToString(n) == IF n < 0 THEN <<45>> \o DigitsOf(-n) ELSE DigitsOf(n)

\* getEndCell(startCell, data).  threw = TRUE models
\* throw new Error(`Invalid cell reference: ${startCell}`).
getEndCell(startCell, data) ==
    LET colMatch == MatchRun(startCell, "A-Z")
        rowMatch == MatchRun(startCell, "0-9")
    IN  IF colMatch = NoMatch \/ rowMatch = NoMatch
        THEN [threw |-> TRUE, cell |-> Empty]
        ELSE LET startCol == colMatch
                 startRow == parseInt(rowMatch)
                 endRow   == startRow + Len(data) - 1
                 endCol   == getColumnLetter(
                                 columnToNumber(startCol) + getMaxRowLength(data) - 1)
             IN  [threw |-> FALSE, cell |-> endCol \o NumberToString(endRow)]

----------------------------------------------------------------------------
(* Inputs: configurations, operations, data files, remote sheet lists *)

\* The operationType strings the switch of processDataOperations knows.
ReplaceEntireSheetType == "replaceEntireSheet"
ReplaceAtCellType == "replaceAtCell"

\* Well-formed operations.
OpSheet1      == [sheetName |-> "Sheet1", dataPath |-> "d.csv",
                  operationType |-> ReplaceEntireSheetType]
OpDataAtA1    == [sheetName |-> "Data", dataPath |-> "d.csv",
                  operationType |-> ReplaceAtCellType, cellId |-> <<65, 49>>]
OpMissingBad  == [sheetName |-> "Missing", dataPath |-> "bad.csv",
                  operationType |-> ReplaceEntireSheetType]
OpDataBad     == [sheetName |-> "Data", dataPath |-> "bad.csv",
                  operationType |-> ReplaceEntireSheetType]
OpUnknownType == [sheetName |-> "Data", dataPath |-> "d.csv",
                  operationType |-> "appendRows"]
OpUnknownBad  == [sheetName |-> "Data", dataPath |-> "bad.csv",
                  operationType |-> "appendRows"]
OpProtoName   == [sheetName |-> "constructor", dataPath |-> "d.csv",
                  operationType |-> ReplaceEntireSheetType]
\* replaceAtCell at "1A" and at "a1".
OpDataAt1A    == [sheetName |-> "Data", dataPath |-> "d.csv",
                  operationType |-> ReplaceAtCellType, cellId |-> <<49, 65>>]
OpDataAtLower == [sheetName |-> "Data", dataPath |-> "d.csv",
                  operationType |-> ReplaceAtCellType, cellId |-> <<97, 49>>]

\* Operations validateConfig throws on.
OpOnlySheet   == [sheetName |-> "S"]
OpNoSheet     == [operationType |-> ReplaceAtCellType]
OpEmptySheet  == [sheetName |-> "", dataPath |-> "d.csv",
                  operationType |-> ReplaceEntireSheetType]
OpNoType      == [sheetName |-> "Data", dataPath |-> "d.csv"]
OpNoCellId    == [sheetName |-> "Data", dataPath |-> "d.csv",
                  operationType |-> ReplaceAtCellType]
OpEmptyCellId == [sheetName |-> "Data", dataPath |-> "d.csv",
                  operationType |-> ReplaceAtCellType, cellId |-> Empty]

OpChoices ==
    { OpSheet1, OpDataAtA1, OpMissingBad, OpDataBad, OpUnknownType, OpUnknownBad,
      OpProtoName, OpDataAt1A, OpDataAtLower,
      OpOnlySheet, OpNoSheet, OpEmptySheet, OpNoType, OpNoCellId, OpEmptyCellId }

TemplateUrl == "https://docs.google.com/spreadsheets/d/1AbCdEfGhIjKlMnOpQrStUvWxYz0123456789/edit"

GoodConfig(operations) ==
    [templateUrl |-> TemplateUrl, newSpreadsheetName |-> "Report",
     folderId |-> "folder1", sharedDriveId |-> "drive1",
     orgDomain |-> "example.com", operations |-> operations]

\* Configurations that are wrong outside the operation list.
BadConfigs ==
    { [newSpreadsheetName |-> "Report", folderId |-> "folder1",
       sharedDriveId |-> "drive1", orgDomain |-> "example.com",
       operations |-> <<OpSheet1>>],
      [templateUrl |-> TemplateUrl, newSpreadsheetName |-> "Report",
       folderId |-> "folder1", sharedDriveId |-> "drive1", orgDomain |-> "",
       operations |-> <<OpSheet1, OpNoCellId>>],
      [templateUrl |-> TemplateUrl, newSpreadsheetName |-> "Report",
       folderId |-> "folder1", sharedDriveId |-> "drive1",
       orgDomain |-> "example.com"],
      [templateUrl |-> "https://example.com/sheet", newSpreadsheetName |-> "Report",
       folderId |-> "folder1", sharedDriveId |-> "drive1",
       orgDomain |-> "example.com", operations |-> <<OpSheet1>>] }

\* A configuration: any list of up to MaxOps operations under the other
\* fields well-formed, or one of BadConfigs.
IsConfig(cfg) ==
    \/ \E n \in 0..MaxOps : \E operations \in [1..n -> OpChoices] :
          cfg = GoodConfig(operations)
    \/ cfg \in BadConfigs

\* The data sources: what fs.readFileSync + parse yield for each path.
\* "d.csv" holds the ragged rows a,b / c; "empty.csv" holds no record;
\* "broken.csv" has an unbalanced quote; every other path does not exist.
FileParses(path) == path \in {"d.csv", "empty.csv"}

FileRecords(path) ==
    IF path = "d.csv" THEN << <<"a", "b">>, <<"c">> >> ELSE Empty

\* spreadsheet.data.sheets as sheets.spreadsheets.get may return it.
SheetLists ==
    { << [title |-> "Sheet1", sheetId |-> 0] >>,
      << [title |-> "Sheet1", sheetId |-> 0], [title |-> "Data", sheetId |-> 1234] >>,
      << [title |-> "Sheet1", sheetId |-> 42], [title |-> "Data", sheetId |-> 1234] >> }

----------------------------------------------------------------------------
(* validateConfig: part_000 lines 62-99 *)

NoError == [kind |-> "none", index |-> 0, field |-> ""]
Err(kind, index, field) == [kind |-> kind, index |-> index, field |-> field]

\* !obj[key] for a key holding a string (or nothing): absent or "".
Falsy(obj, key) ==
    \/ key \notin DOMAIN obj
    \/ IF key = "cellId" THEN obj[key] = Empty
       ELSE IF key = "operations" THEN FALSE
       ELSE obj[key] = ""

requiredFields ==
    <<"templateUrl", "newSpreadsheetName", "folderId", "sharedDriveId",
      "orgDomain", "operations">>

\* Lines 72-76: the first required field that is falsy.
RequiredFieldError(cfg) ==
    LET bad == {k \in 1..Len(requiredFields) : Falsy(cfg, requiredFields[k])}
    IN  IF bad = {} THEN NoError
        ELSE LET k == CHOOSE x \in bad : \A y \in bad : x <= y
             IN  Err("MissingConfig", 0, requiredFields[k])

\* Variant of OperationError: operationType is checked before dataPath.
OperationErrorTypeFirst(operation, index) ==
    IF Falsy(operation, "sheetName") THEN Err("MissingField", index, "sheetName")
    ELSE IF Falsy(operation, "operationType")
         THEN Err("MissingField", index, "operationType")
    ELSE IF Falsy(operation, "dataPath") THEN Err("MissingField", index, "dataPath")
    ELSE IF operation.operationType = ReplaceAtCellType /\ Falsy(operation, "cellId")
         THEN Err("MissingCellId", index, "cellId")
    ELSE NoError

\* Lines 84-97: the checks of one operation, in order.
OperationError(operation, index) ==
    IF Falsy(operation, "sheetName") THEN Err("MissingField", index, "sheetName")
    ELSE IF Falsy(operation, "dataPath") THEN Err("MissingField", index, "dataPath")
    ELSE IF Falsy(operation, "operationType")
         THEN Err("MissingField", index, "operationType")
    ELSE IF operation.operationType = ReplaceAtCellType /\ Falsy(operation, "cellId")
         THEN Err("MissingCellId", index, "cellId")
    ELSE NoError

\* Variant of OperationsError: only the first operation is checked.
OperationsErrorFirstOnly(operations) ==
    IF Len(operations) = 0 THEN Err("EmptyOperations", 0, "operations")
    ELSE OperationError(operations[1], 1)

\* Lines 78-98: the operation list; forEach stops at the first throw.
OperationsError(operations) ==
    IF Len(operations) = 0 THEN Err("EmptyOperations", 0, "operations")
    ELSE LET bad == {i \in 1..Len(operations) :
                        OperationError(operations[i], i) # NoError}
         IN  IF bad = {} THEN NoError
             ELSE LET i == CHOOSE x \in bad : \A y \in bad : x <= y
                  IN  OperationError(operations[i], i)

validateConfig(cfg) ==
    IF RequiredFieldError(cfg) # NoError THEN RequiredFieldError(cfg)
    ELSE OperationsError(cfg.operations)

\* extractSpreadsheetId: does /[-\w]{25,}/ match the URL.
HasSpreadsheetId(url) == url = TemplateUrl

----------------------------------------------------------------------------
(* The call log *)

NoRange == [sheet |-> "", from |-> Empty, to |-> Empty]

\* `${sheetName}` and `${sheetName}!${cellId}:${endCell}`, kept in parts.
SheetRange(sheetName) == [sheet |-> sheetName, from |-> Empty, to |-> Empty]
\* Variant of CellRange for comparison: the range stops at the anchor cell.
CellRangeAnchorOnly(sheetName, cellId, endCell) ==
    [sheet |-> sheetName, from |-> cellId, to |-> cellId]
CellRange(sheetName, cellId, endCell) ==
    [sheet |-> sheetName, from |-> cellId, to |-> endCell]

Entry(call, op, range, values, status) ==
    [call |-> call, op |-> op, range |-> range, values |-> values, status |-> status,
     valueInputOption |-> ""]

\* sheets.spreadsheets.values.update({range, valueInputOption: "USER_ENTERED",
\* requestBody: {values}}), in flight.
UpdateRequest(op, range, values) ==
    [Entry("sheets.values.update", op, range, values, "pending")
        EXCEPT !.valueInputOption = "USER_ENTERED"]

\* Issue a remote call: it is in flight until the awaiting code resumes.
Issued(call, op, range, values) ==
    Append(log, Entry(call, op, range, values, "pending"))

\* Variant of Settled: the call is not awaited, it stays in flight.
SettledNever(status) == log

\* The call awaited is the one issued last.
Settled(status) == [log EXCEPT ![Len(log)].status = status]

\* Variant of Recorded: the sheet list is fetched again for each operation.
RecordedAfterFetch(call, op, status) ==
    Append(Append(log, Entry("sheets.spreadsheets.get", 0, NoRange, Empty, "ok")),
           Entry(call, op, NoRange, Empty, status))

\* A synchronous event (a file read, a console.warn), recorded with its outcome.
Recorded(call, op, status) == Append(log, Entry(call, op, NoRange, Empty, status))

\* Every catch block logs and rethrows: the run ends with the error.
Throw(e) == pc' = "failed" /\ error' = e

Operations == IF "operations" \in DOMAIN config THEN config.operations ELSE Empty

----------------------------------------------------------------------------
(* createAndUpdateSpreadsheet: part_000 lines 13-56, and the Drive wrappers
   copySpreadsheet, moveFileToFolder, shareWithOrganization: lines 123-201 *)

\* Line 16.
Validate ==
    /\ pc = "validate"
    /\ IF validateConfig(config) # NoError
       THEN Throw(validateConfig(config))
       ELSE pc' = "auth" /\ UNCHANGED error
    /\ UNCHANGED <<config, log, newFile, sheetsMap, opIdx, csvData, result>>
    /\ UNCHANGED algVars

\* Lines 19-21; auth.js throws when credentials.json cannot be read or parsed.
CreateAuthClient ==
    /\ pc = "auth"
    /\ \E credentialsOk \in BOOLEAN :
          IF credentialsOk THEN pc' = "copy" /\ UNCHANGED error
          ELSE Throw(Err("AuthError", 0, ""))
    /\ UNCHANGED <<config, log, newFile, sheetsMap, opIdx, csvData, result>>
    /\ UNCHANGED algVars

\* Lines 26-27 and 125: extractSpreadsheetId, then drive.files.copy.
CopySpreadsheetCall ==
    /\ pc = "copy"
    /\ IF HasSpreadsheetId(config.templateUrl)
       THEN /\ log' = Issued("drive.files.copy", 0, NoRange, Empty)
            /\ pc' = "copyWait"
            /\ UNCHANGED error
       ELSE Throw(Err("InvalidUrl", 0, "templateUrl")) /\ UNCHANGED log
    /\ UNCHANGED <<config, newFile, sheetsMap, opIdx, csvData, result>>
    /\ UNCHANGED algVars

\* Lines 133-138.
CopySpreadsheetReturn ==
    /\ pc = "copyWait"
    /\ \E ok \in BOOLEAN :
          IF ok
          THEN /\ log' = Settled("ok")
               /\ newFile' = "newFileId"
               /\ pc' = "getParents"
               /\ UNCHANGED error
          ELSE /\ log' = Settled("error")
               /\ Throw(Err("RemoteError", 0, "drive.files.copy"))
               /\ UNCHANGED newFile
    /\ UNCHANGED <<config, sheetsMap, opIdx, csvData, result>>
    /\ UNCHANGED algVars

\* Lines 34, 151: moveFileToFolder asks for the file's parents.
GetParentsCall ==
    /\ pc = "getParents"
    /\ log' = Issued("drive.files.get", 0, NoRange, Empty)
    /\ pc' = "getParentsWait"
    /\ UNCHANGED <<config, error, newFile, sheetsMap, opIdx, csvData, result>>
    /\ UNCHANGED algVars

\* Lines 157-167, 172-175: on success drive.files.update is issued at once.
GetParentsReturn ==
    /\ pc = "getParentsWait"
    /\ \E ok \in BOOLEAN :
          IF ok
          THEN /\ log' = Append(Settled("ok"),
                                Entry("drive.files.update", 0, NoRange, Empty, "pending"))
               /\ pc' = "moveWait"
               /\ UNCHANGED error
          ELSE /\ log' = Settled("error")
               /\ Throw(Err("RemoteError", 0, "drive.files.get"))
    /\ UNCHANGED <<config, newFile, sheetsMap, opIdx, csvData, result>>
    /\ UNCHANGED algVars

\* Lines 169-175.
MoveReturn ==
    /\ pc = "moveWait"
    /\ \E ok \in BOOLEAN :
          IF ok
          THEN log' = Settled("ok") /\ pc' = "share" /\ UNCHANGED error
          ELSE /\ log' = Settled("error")
               /\ Throw(Err("RemoteError", 0, "drive.files.update"))
    /\ UNCHANGED <<config, newFile, sheetsMap, opIdx, csvData, result>>
    /\ UNCHANGED algVars

\* Lines 42, 186.
ShareCall ==
    /\ pc = "share"
    /\ log' = Issued("drive.permissions.create", 0, NoRange, Empty)
    /\ pc' = "shareWait"
    /\ UNCHANGED <<config, error, newFile, sheetsMap, opIdx, csvData, result>>
    /\ UNCHANGED algVars

\* Lines 196-200.
\* Variant of ShareReturn for comparison: a failed share is logged and the
\* run goes on.
ShareReturnIgnore ==
    /\ pc = "shareWait"
    /\ \E ok \in BOOLEAN :
          /\ log' = Settled(IF ok THEN "ok" ELSE "error")
          /\ pc' = "fetch"
          /\ UNCHANGED error
    /\ UNCHANGED <<config, newFile, sheetsMap, opIdx, csvData, result>>
    /\ UNCHANGED algVars

ShareReturn ==
    /\ pc = "shareWait"
    /\ \E ok \in BOOLEAN :
          IF ok
          THEN log' = Settled("ok") /\ pc' = "fetch" /\ UNCHANGED error
          ELSE /\ log' = Settled("error")
               /\ Throw(Err("RemoteError", 0, "drive.permissions.create"))
    /\ UNCHANGED <<config, newFile, sheetsMap, opIdx, csvData, result>>
    /\ UNCHANGED algVars

----------------------------------------------------------------------------
(* processDataOperations: part_000 lines 209-267; readCsvFile: lines 274-291;
   replaceEntireSheet: lines 300-323; replaceAtCell: lines 333-356 *)

\* The keys every object literal {} inherits from Object.prototype.
ObjectPrototypeKeys ==
    { "constructor", "toString", "toLocaleString", "valueOf", "hasOwnProperty",
      "isPrototypeOf", "propertyIsEnumerable", "__proto__" }

\* Lines 216-219: sheetsMap[title] = sheetId for each sheet, later ones winning.
BuildSheetsMap(sheets) ==
    [t \in {sheets[k].title : k \in 1..Len(sheets)} |->
        LET ks   == {k \in 1..Len(sheets) : sheets[k].title = t}
            last == CHOOSE k \in ks : \A j \in ks : j <= k
        IN  sheets[last].sheetId]

\* Line 226 negated: sheetsMap[sheetName] is truthy.  An own key holds its
\* sheetId, truthy unless 0; another key is looked up on Object.prototype.
SheetFound(map, sheetName) ==
    IF sheetName \in DOMAIN map THEN map[sheetName] # 0
    ELSE sheetName \in ObjectPrototypeKeys

\* Lines 45, 212.
FetchSheetsCall ==
    /\ pc = "fetch"
    /\ log' = Issued("sheets.spreadsheets.get", 0, NoRange, Empty)
    /\ pc' = "fetchWait"
    /\ UNCHANGED <<config, error, newFile, sheetsMap, opIdx, csvData, result>>
    /\ UNCHANGED algVars

\* Lines 216-219 on success, 263-266 on failure.
FetchSheetsReturn ==
    /\ pc = "fetchWait"
    /\ \/ \E sheets \in SheetLists :
             /\ log' = Settled("ok")
             /\ sheetsMap' = BuildSheetsMap(sheets)
             /\ pc' = "loop"
             /\ UNCHANGED error
       \/ /\ log' = Settled("error")
          /\ Throw(Err("RemoteError", 0, "sheets.spreadsheets.get"))
          /\ UNCHANGED sheetsMap
    /\ UNCHANGED <<config, newFile, opIdx, csvData, result>>
    /\ UNCHANGED algVars

\* Variant of LoopOperation: a failed read is skipped like an unknown sheet.
LoopOperationSwallow ==
    /\ pc = "loop"
    /\ opIdx <= Len(Operations)
    /\ LET operation == Operations[opIdx]
       IN  IF ~SheetFound(sheetsMap, operation.sheetName)
           THEN /\ log' = Recorded("warn.sheetNotFound", opIdx, "ok")
                /\ opIdx' = opIdx + 1
                /\ UNCHANGED <<pc, error, csvData>>
           ELSE IF FileParses(operation.dataPath)
           THEN /\ log' = Recorded("readCsvFile", opIdx, "ok")
                /\ csvData' = FileRecords(operation.dataPath)
                /\ pc' = "dispatch"
                /\ UNCHANGED <<opIdx, error>>
           ELSE /\ log' = Recorded("readCsvFile", opIdx, "error")
                /\ opIdx' = opIdx + 1
                /\ UNCHANGED <<pc, error, csvData>>
    /\ UNCHANGED <<config, newFile, sheetsMap, result>>
    /\ UNCHANGED algVars

\* Lines 222-234 and readCsvFile: the head of one loop iteration.
\* Variant of LoopOperation for comparison: the data file is loaded before
\* the sheet name is looked up.
LoopOperationReadFirst ==
    /\ pc = "loop"
    /\ opIdx <= Len(Operations)
    /\ LET operation == Operations[opIdx]
       IN  IF ~FileParses(operation.dataPath)
           THEN /\ log' = Recorded("readCsvFile", opIdx, "error")
                /\ Throw(Err("ReadError", opIdx, "dataPath"))
                /\ UNCHANGED <<opIdx, csvData>>
           ELSE IF ~SheetFound(sheetsMap, operation.sheetName)
           THEN /\ log' = Recorded("warn.sheetNotFound", opIdx, "ok")
                /\ opIdx' = opIdx + 1
                /\ UNCHANGED <<pc, error, csvData>>
           ELSE /\ log' = Recorded("readCsvFile", opIdx, "ok")
                /\ csvData' = FileRecords(operation.dataPath)
                /\ pc' = "dispatch"
                /\ UNCHANGED <<opIdx, error>>
    /\ UNCHANGED <<config, newFile, sheetsMap, result>>
    /\ UNCHANGED algVars

LoopOperation ==
    /\ pc = "loop"
    /\ opIdx <= Len(Operations)
    /\ LET operation == Operations[opIdx]
       IN  IF ~SheetFound(sheetsMap, operation.sheetName)
           THEN /\ log' = Recorded("warn.sheetNotFound", opIdx, "ok")
                /\ opIdx' = opIdx + 1
                /\ UNCHANGED <<pc, error, csvData>>
           ELSE IF FileParses(operation.dataPath)
           THEN /\ log' = Recorded("readCsvFile", opIdx, "ok")
                /\ csvData' = FileRecords(operation.dataPath)
                /\ pc' = "dispatch"
                /\ UNCHANGED <<opIdx, error>>
           ELSE /\ log' = Recorded("readCsvFile", opIdx, "error")
                /\ Throw(Err("ReadError", opIdx, "dataPath"))
                /\ UNCHANGED <<opIdx, csvData>>
    /\ UNCHANGED <<config, newFile, sheetsMap, result>>
    /\ UNCHANGED algVars

\* Variant of DispatchOperation: the default branch of the switch throws.
DispatchOperationStrict ==
    /\ pc = "dispatch"
    /\ LET operation == Operations[opIdx]
       IN  IF operation.operationType = ReplaceEntireSheetType
           THEN /\ log' = Issued("sheets.values.clear", opIdx,
                                 SheetRange(operation.sheetName), Empty)
                /\ pc' = "clearWait"
                /\ UNCHANGED <<opIdx, error, csvData>>
           ELSE IF operation.operationType = ReplaceAtCellType
           THEN LET end == getEndCell(operation.cellId, csvData)
                IN  IF end.threw
                    THEN /\ Throw(Err("InvalidCellReference", opIdx, "cellId"))
                         /\ UNCHANGED <<log, opIdx, csvData>>
                    ELSE /\ log' = Append(log, UpdateRequest(opIdx,
                                          CellRange(operation.sheetName,
                                                    operation.cellId, end.cell),
                                          csvData))
                         /\ pc' = "cellUpdateWait"
                         /\ UNCHANGED <<opIdx, error, csvData>>
           ELSE /\ Throw(Err("UnknownType", opIdx, "operationType"))
                /\ UNCHANGED <<log, opIdx, csvData>>
    /\ UNCHANGED <<config, newFile, sheetsMap, result>>
    /\ UNCHANGED algVars

\* Lines 237-259, with the first call of the strategy chosen (303 or 336-339).
DispatchOperation ==
    /\ pc = "dispatch"
    /\ LET operation == Operations[opIdx]
       IN  IF operation.operationType = ReplaceEntireSheetType
           THEN /\ log' = Issued("sheets.values.clear", opIdx,
                                 SheetRange(operation.sheetName), Empty)
                /\ pc' = "clearWait"
                /\ UNCHANGED <<opIdx, error, csvData>>
           ELSE IF operation.operationType = ReplaceAtCellType
           THEN LET end == getEndCell(operation.cellId, csvData)
                IN  IF end.threw
                    THEN /\ Throw(Err("InvalidCellReference", opIdx, "cellId"))
                         /\ UNCHANGED <<log, opIdx, csvData>>
                    ELSE /\ log' = Append(log, UpdateRequest(opIdx,
                                          CellRange(operation.sheetName,
                                                    operation.cellId, end.cell),
                                          csvData))
                         /\ pc' = "cellUpdateWait"
                         /\ UNCHANGED <<opIdx, error, csvData>>
           ELSE /\ log' = Recorded("warn.unknownType", opIdx, "ok")
                /\ opIdx' = opIdx + 1
                /\ csvData' = Empty
                /\ pc' = "loop"
                /\ UNCHANGED error
    /\ UNCHANGED <<config, newFile, sheetsMap, result>>
    /\ UNCHANGED algVars

\* Variant of ClearReturn: a failed clear is issued once more.
ClearReturnRetry ==
    /\ pc = "clearWait"
    /\ \E ok \in BOOLEAN :
          IF ok
          THEN /\ log' = Append(Settled("ok"),
                                UpdateRequest(opIdx,
                                      SheetRange(Operations[opIdx].sheetName),
                                      csvData))
               /\ pc' = "sheetUpdateWait"
               /\ UNCHANGED error
          ELSE IF \E k \in 1..(Len(log) - 1) :
                     log[k].op = opIdx /\ log[k].call = "sheets.values.clear"
          THEN /\ log' = Settled("error")
               /\ Throw(Err("RemoteError", opIdx, "sheets.values.clear"))
          ELSE /\ log' = Append(Settled("error"),
                                Entry("sheets.values.clear", opIdx,
                                      SheetRange(Operations[opIdx].sheetName),
                                      Empty, "pending"))
               /\ UNCHANGED <<pc, error>>
    /\ UNCHANGED <<config, newFile, sheetsMap, opIdx, csvData, result>>
    /\ UNCHANGED algVars

\* Variant of ClearReturn for comparison: the update is issued whether or not
\* the clear succeeded.
ClearReturnIgnoreFailure ==
    /\ pc = "clearWait"
    /\ \E ok \in BOOLEAN :
          /\ log' = Append(Settled(IF ok THEN "ok" ELSE "error"),
                           UpdateRequest(opIdx,
                                 SheetRange(Operations[opIdx].sheetName),
                                 csvData))
          /\ pc' = "sheetUpdateWait"
          /\ UNCHANGED error
    /\ UNCHANGED <<config, newFile, sheetsMap, opIdx, csvData, result>>
    /\ UNCHANGED algVars

\* replaceEntireSheet, lines 303-322: after the clear, the update is issued.
ClearReturn ==
    /\ pc = "clearWait"
    /\ \E ok \in BOOLEAN :
          IF ok
          THEN /\ log' = Append(Settled("ok"),
                                UpdateRequest(opIdx,
                                      SheetRange(Operations[opIdx].sheetName),
                                      csvData))
               /\ pc' = "sheetUpdateWait"
               /\ UNCHANGED error
          ELSE /\ log' = Settled("error")
               /\ Throw(Err("RemoteError", opIdx, "sheets.values.clear"))
    /\ UNCHANGED <<config, newFile, sheetsMap, opIdx, csvData, result>>
    /\ UNCHANGED algVars

\* The end of a write strategy: the next loop iteration, or the rethrow.
UpdateReturn(waitPc) ==
    /\ pc = waitPc
    /\ \E ok \in BOOLEAN :
          IF ok
          THEN /\ log' = Settled("ok")
               /\ opIdx' = opIdx + 1
               /\ csvData' = Empty
               /\ pc' = "loop"
               /\ UNCHANGED error
          ELSE /\ log' = Settled("error")
               /\ Throw(Err("RemoteError", opIdx, "sheets.values.update"))
               /\ UNCHANGED <<opIdx, csvData>>
    /\ UNCHANGED <<config, newFile, sheetsMap, result>>
    /\ UNCHANGED algVars

\* replaceEntireSheet, lines 318-322.
SheetUpdateReturn == UpdateReturn("sheetUpdateWait")

\* replaceAtCell, lines 348-355.
CellUpdateReturn == UpdateReturn("cellUpdateWait")

\* Lines 262 and 48-51: the loop is over, the URL is returned.
\* Variant of ReturnUrl for comparison: the loop may be left before the last
\* operation.
ReturnUrlEarly ==
    /\ pc = "loop"
    /\ result' = "https://docs.google.com/spreadsheets/d/newFileId"
    /\ pc' = "done"
    /\ UNCHANGED <<config, error, log, newFile, sheetsMap, opIdx, csvData>>
    /\ UNCHANGED algVars

ReturnUrl ==
    /\ pc = "loop"
    /\ opIdx > Len(Operations)
    /\ result' = "https://docs.google.com/spreadsheets/d/newFileId"
    /\ pc' = "done"
    /\ UNCHANGED <<config, error, log, newFile, sheetsMap, opIdx, csvData>>
    /\ UNCHANGED algVars

----------------------------------------------------------------------------
(* The run of createAndUpdateSpreadsheet *)

NoOutput == [text |-> Empty, number |-> 0, threw |-> FALSE]
NoInput == [fn |-> "none"]

Init ==
    /\ IsConfig(config)
    /\ pc = "validate"
    /\ error = NoError
    /\ log = Empty
    /\ newFile = ""
    /\ sheetsMap = Empty
    /\ opIdx = 1
    /\ csvData = Empty
    /\ result = ""
    /\ algPc = "idle"
    /\ algIn = NoInput
    /\ algOut = NoOutput

Next ==
    \/ Validate
    \/ CreateAuthClient
    \/ CopySpreadsheetCall
    \/ CopySpreadsheetReturn
    \/ GetParentsCall
    \/ GetParentsReturn
    \/ MoveReturn
    \/ ShareCall
    \/ ShareReturn
    \/ FetchSheetsCall
    \/ FetchSheetsReturn
    \/ LoopOperation
    \/ DispatchOperation
    \/ ClearReturn
    \/ SheetUpdateReturn
    \/ CellUpdateReturn
    \/ ReturnUrl

Spec == Init /\ [][Next]_vars

\* Every await settles: the promise of each remote call and the synchronous
\* file load resolve or reject, so a step that can be taken is taken.
FairSpec == Spec /\ WF_vars(Next)

----------------------------------------------------------------------------
(* The cell-reference algebra on its own: each behaviour applies the
   functions of lines 364-425 to one input. *)

\* Data blocks: up to MaxRows rows of 0..MaxRowLen cells each (ragged).
RowChoices == { [c \in 1..k |-> "x"] : k \in 0..MaxRowLen }
DataChoices == UNION { [1..r -> RowChoices] : r \in 0..MaxRows }

\* Start cells in canonical form: A, C, Y, Z, AA, AZ, ZY, ZZ with rows
\* 1, 5, 9, 10, 99.
StartColumns ==
    { <<65>>, <<67>>, <<89>>, <<90>>, <<65, 65>>, <<65, 90>>, <<90, 89>>, <<90, 90>> }
StartRows == { <<49>>, <<53>>, <<57>>, <<49, 48>>, <<57, 57>> }

\* Start cells out of canonical form: "1A", "a1", "A1x", "A", "7", "", "aB2",
\* "A1:B2", "$A$1".
MalformedCells ==
    { <<49, 65>>, <<97, 49>>, <<65, 49, 120>>, <<65>>, <<55>>, Empty,
      <<97, 66, 50>>, <<65, 49, 58, 66, 50>>, <<36, 65, 36, 49>> }

\* Column strings that are not runs of uppercase letters: "a", "A1", "aB", "-".
MalformedColumns == { <<97>>, <<65, 49>>, <<97, 66>>, <<45>> }

\* One input: a column number for getColumnLetter, a column string (a run of
\* 0..MaxLetters uppercase letters) for columnToNumber, or a start cell and
\* a data block for getEndCell.
IsAlgInput(in) ==
    \/ \E n \in (-1)..MaxColumn : in = [fn |-> "getColumnLetter", number |-> n]
    \/ \E k \in 0..MaxLetters : \E s \in [1..k -> 65..90] :
          in = [fn |-> "columnToNumber", column |-> s]
    \/ \E s \in MalformedColumns : in = [fn |-> "columnToNumber", column |-> s]
    \/ \E c \in StartColumns, r \in StartRows, d \in DataChoices :
          in = [fn |-> "getEndCell", startCell |-> c \o r, data |-> d,
                startCol |-> c, startRow |-> r]
    \/ \E m \in MalformedCells, d \in DataChoices :
          in = [fn |-> "getEndCell", startCell |-> m, data |-> d,
                startCol |-> Empty, startRow |-> Empty]

AlgInit ==
    /\ config = GoodConfig(Empty)
    /\ pc = "idle"
    /\ error = NoError
    /\ log = Empty
    /\ newFile = ""
    /\ sheetsMap = Empty
    /\ opIdx = 1
    /\ csvData = Empty
    /\ result = ""
    /\ algPc = "call"
    /\ IsAlgInput(algIn)
    /\ algOut = NoOutput

\* getColumnLetter(n), then columnToNumber of what it returned.
CallGetColumnLetter ==
    /\ algPc = "call"
    /\ algIn.fn = "getColumnLetter"
    /\ algOut' = [algOut EXCEPT !.text = getColumnLetter(algIn.number)]
    /\ algPc' = "back"
    /\ UNCHANGED <<algIn, runVars>>

BackToNumber ==
    /\ algPc = "back"
    /\ algIn.fn = "getColumnLetter"
    /\ algOut' = [algOut EXCEPT !.number = columnToNumber(algOut.text)]
    /\ algPc' = "done"
    /\ UNCHANGED <<algIn, runVars>>

\* columnToNumber(s), then getColumnLetter of what it returned.
CallColumnToNumber ==
    /\ algPc = "call"
    /\ algIn.fn = "columnToNumber"
    /\ algOut' = [algOut EXCEPT !.number = columnToNumber(algIn.column)]
    /\ algPc' = "back"
    /\ UNCHANGED <<algIn, runVars>>

BackToLetter ==
    /\ algPc = "back"
    /\ algIn.fn = "columnToNumber"
    /\ algOut' = [algOut EXCEPT !.text = getColumnLetter(algOut.number)]
    /\ algPc' = "done"
    /\ UNCHANGED <<algIn, runVars>>

\* getEndCell(startCell, data).
CallGetEndCell ==
    /\ algPc = "call"
    /\ algIn.fn = "getEndCell"
    /\ LET end == getEndCell(algIn.startCell, algIn.data)
       IN  algOut' = [algOut EXCEPT !.text = end.cell, !.threw = end.threw]
    /\ algPc' = "done"
    /\ UNCHANGED <<algIn, runVars>>

AlgNext ==
    \/ CallGetColumnLetter
    \/ BackToNumber
    \/ CallColumnToNumber
    \/ BackToLetter
    \/ CallGetEndCell

SpecAlg == AlgInit /\ [][AlgNext]_vars

----------------------------------------------------------------------------
(* Vocabulary of the properties *)

LogIdx == 1..Len(log)
OpIdxs == 1..Len(Operations)

ClearCall == "sheets.values.clear"
UpdateCall == "sheets.values.update"
FetchCall == "sheets.spreadsheets.get"
ReadCall == "readCsvFile"
DriveCalls ==
    {"drive.files.copy", "drive.files.get", "drive.files.update",
     "drive.permissions.create"}

\* Operation i has an entry of this call (with this status) in the log.
Has(i, call) == \E k \in LogIdx : log[k].op = i /\ log[k].call = call
HasStatus(i, call, status) ==
    \E k \in LogIdx : log[k].op = i /\ log[k].call = call /\ log[k].status = status
Count(i, call) == Cardinality({k \in LogIdx : log[k].op = i /\ log[k].call = call})

\* The loop has reached operation i / has gone past it.
Started(i) == \E k \in LogIdx : log[k].op = i
Finished(i) == i < opIdx

\* The run failed while it was at operation i.
FailedAt(i) == pc = "failed" /\ error.index = i

\* The sheet registry holds the name as a key.
InRegistry(sheetName) == sheetName \in DOMAIN sheetsMap

KnownTypes == {ReplaceEntireSheetType, ReplaceAtCellType}

\* A reference in canonical form: one or more uppercase letters, then one or
\* more digits, and nothing else.
IsCanonical(ref) ==
    \E n \in 1..(Len(ref) - 1) :
        /\ \A k \in 1..n : IsUpper(ref[k])
        /\ \A k \in (n + 1)..Len(ref) : IsDigit(ref[k])

\* A run of one or more uppercase letters.
IsLetters(s) == Len(s) >= 1 /\ \A k \in 1..Len(s) : IsUpper(s[k])

\* A field is absent from an operation / is absent or the empty string.
Absent(operation, field) == field \notin DOMAIN operation
Lacks(operation, field) ==
    \/ field \notin DOMAIN operation
    \/ Len(operation[field]) = 0

----------------------------------------------------------------------------
(* C1 *)

\* C1: an operation whose sheetName is a key of the registry is executed,
\* whatever id the registry maps the name to (0 included): once the loop is
\* past it, its data was loaded and its write strategy issued its calls
\* (clear then write for replaceEntireSheet).
C1_RegisteredSheetExecuted ==
    \A i \in OpIdxs :
        (Finished(i) /\ InRegistry(Operations[i].sheetName)) =>
            /\ HasStatus(i, ReadCall, "ok")
            /\ Operations[i].operationType = ReplaceEntireSheetType =>
                   HasStatus(i, ClearCall, "ok") /\ HasStatus(i, UpdateCall, "ok")
            /\ Operations[i].operationType = ReplaceAtCellType =>
                   HasStatus(i, UpdateCall, "ok")

----------------------------------------------------------------------------
(* C2 *)

\* C2: an operation whose sheetName is not a key of the registry gets no
\* clear and no write, does not fail the run, and the loop goes on past it;
\* and an operation is skipped as "sheet not found" only when its sheetName
\* is not a key of the registry.
C2_SkippedIffAbsent ==
    \A i \in OpIdxs :
        Started(i) =>
            /\ Has(i, "warn.sheetNotFound") <=> ~InRegistry(Operations[i].sheetName)
            /\ ~InRegistry(Operations[i].sheetName) =>
                   /\ ~Has(i, ClearCall)
                   /\ ~Has(i, UpdateCall)
                   /\ ~FailedAt(i)
                   /\ Finished(i)

----------------------------------------------------------------------------
(* C3 *)

\* An operation validateConfig must reject: a required field is missing, or
\* it is a replaceAtCell without cellId.
StructurallyInvalid(operation) ==
    \/ Lacks(operation, "sheetName")
    \/ Lacks(operation, "dataPath")
    \/ Lacks(operation, "operationType")
    \/ operation.operationType = ReplaceAtCellType /\ Lacks(operation, "cellId")

\* C3: when some operation of the list (at any index, the last included) is
\* structurally invalid, nothing is ever issued: no Drive call, no registry
\* fetch, no data load, no clear, no write.
C3_ValidationBeforeEffects ==
    (\E i \in OpIdxs : StructurallyInvalid(Operations[i])) => log = Empty

\* The run was rejected for its last operation, after two valid ones.
C3_Witness ==
    /\ pc = "failed"
    /\ Len(Operations) = 3
    /\ ~StructurallyInvalid(Operations[1])
    /\ ~StructurallyInvalid(Operations[2])
    /\ StructurallyInvalid(Operations[3])
    /\ error.index = 3
    /\ log = Empty

----------------------------------------------------------------------------
(* C4 *)

\* C4: operations are processed in declared order, one at a time: only the
\* call issued last can be in flight, and the log never goes back to an
\* earlier operation, so every call of operation i is settled before the
\* data load or any call of a later operation begins.
C4_SequentialInOrder ==
    \A k \in LogIdx :
        k < Len(log) => log[k].status # "pending" /\ log[k].op <= log[k + 1].op

\* Two operations were executed, each with its write, the second in flight.
C4_Witness ==
    /\ HasStatus(1, UpdateCall, "ok")
    /\ HasStatus(2, UpdateCall, "pending")

----------------------------------------------------------------------------
(* C5 *)

\* C5: a load failure on operation k is fatal: the run has failed with that
\* error, no clear or write was issued for k, nothing of a later operation
\* was loaded or issued, and everything done for the operations before k
\* stands (each call settled "ok", nothing issued after the failed load).
C5_LoadFailureFatal ==
    \A k \in OpIdxs :
        HasStatus(k, ReadCall, "error") =>
            /\ pc = "failed"
            /\ error = Err("ReadError", k, "dataPath")
            /\ result = ""
            /\ ~Has(k, ClearCall) /\ ~Has(k, UpdateCall)
            /\ \A j \in LogIdx :
                  /\ log[j].op <= k
                  /\ j < Len(log) => log[j].status = "ok"
            /\ log[Len(log)] = Entry(ReadCall, k, NoRange, Empty, "error")
            /\ \A i \in 1..(k - 1) :
                  (HasStatus(i, ReadCall, "ok")
                     /\ Operations[i].operationType \in KnownTypes) =>
                      HasStatus(i, UpdateCall, "ok")

\* Operation 2 of 3 failed to load after operation 1 was written.
C5_Witness ==
    /\ Len(Operations) = 3
    /\ HasStatus(2, ReadCall, "error")
    /\ HasStatus(1, UpdateCall, "ok")
    /\ pc = "failed"

----------------------------------------------------------------------------
(* C6 *)

RECURSIVE Power(_, _)
Power(base, e) == IF e = 0 THEN 1 ELSE base * Power(base, e - 1)

\* The value of a numeral by position: digit k weighs base^(Len - k).
RECURSIVE PositionalSum(_, _, _, _)
PositionalSum(s, k, base, zero) ==
    IF k > Len(s) THEN 0
    ELSE (s[k] - zero) * Power(base, Len(s) - k) + PositionalSum(s, k + 1, base, zero)

\* Bijective base 26: A = 1 ... Z = 26, AA = 27; the empty string is 0.
ColumnIndex(letters) == PositionalSum(letters, 1, 26, 64)
\* Decimal digits.
RowIndex(digits) == PositionalSum(digits, 1, 10, 48)

\* The maximum cell count over the rows of d (0 for no row).
MaxRowLength(d) ==
    IF Len(d) = 0 THEN 0
    ELSE CHOOSE m \in {Len(d[r]) : r \in 1..Len(d)} :
             \A r \in 1..Len(d) : Len(d[r]) <= m

\* How many uppercase letters a reference starts with.
LetterPrefix(ref) ==
    Cardinality({k \in 1..Len(ref) : \A j \in 1..k : IsUpper(ref[j])})

\* C6: for a start reference (column, row) and a data block d, getEndCell
\* returns <letters><digits> with column = start column + maxRowLength(d) - 1
\* and row = start row + len(d) - 1; "A1" with [[a,b],[c]] gives "B2", "C5"
\* with [[x]] gives "C5", and "Z1" with one row of two cells gives "AA1".
C6_EndCell ==
    (algPc = "done" /\ algIn.fn = "getEndCell" /\ IsCanonical(algIn.startCell)) =>
        LET n       == LetterPrefix(algOut.text)
            letters == SubSeq(algOut.text, 1, n)
            digits  == SubSeq(algOut.text, n + 1, Len(algOut.text))
        IN  /\ ~algOut.threw
            /\ Len(digits) > 0
            /\ \A k \in 1..Len(digits) : IsDigit(digits[k])
            /\ ColumnIndex(letters) =
                   ColumnIndex(algIn.startCol) + MaxRowLength(algIn.data) - 1
            /\ RowIndex(digits) = RowIndex(algIn.startRow) + Len(algIn.data) - 1
            /\ (algIn.startCell = <<65, 49>> /\ algIn.data = << <<"x", "x">>, <<"x">> >>)
                   => algOut.text = <<66, 50>>
            /\ (algIn.startCell = <<67, 53>> /\ algIn.data = << <<"x">> >>)
                   => algOut.text = <<67, 53>>
            /\ (algIn.startCell = <<90, 49>> /\ algIn.data = << <<"x", "x">> >>)
                   => algOut.text = <<65, 65, 49>>

\* A ragged block whose longest row is not the first, from column Z: the
\* end column carries into two letters.
C6_Witness ==
    /\ algPc = "done"
    /\ algIn.fn = "getEndCell"
    /\ algIn.startCell = <<90, 57>>
    /\ algIn.data = << <<"x">>, <<"x", "x", "x">> >>
    /\ algOut.text = <<65, 66, 49, 48>>

----------------------------------------------------------------------------
(* C7 *)

----------------------------------------------------------------------------
(* C8 *)

\* The five configuration fields beside the operation list are given.
ConfigFieldsGiven ==
    \A f \in {"templateUrl", "newSpreadsheetName", "folderId", "sharedDriveId",
              "orgDomain"} : ~Lacks(config, f)

ValidationErrors == {"EmptyOperations", "MissingField", "MissingCellId"}

\* The first field an operation is missing, in the order sheetName, dataPath,
\* operationType, cellId ("" when none), for a given meaning of "missing".
FirstMissing(operation, Missing(_, _)) ==
    IF Missing(operation, "sheetName") THEN "sheetName"
    ELSE IF Missing(operation, "dataPath") THEN "dataPath"
    ELSE IF Missing(operation, "operationType") THEN "operationType"
    ELSE IF operation.operationType = ReplaceAtCellType /\ Missing(operation, "cellId")
         THEN "cellId"
    ELSE ""

\* What validation of the operation list must have done, once it has run.
ValidationAsClaimed(Missing(_, _)) ==
    LET offending == {i \in OpIdxs : FirstMissing(Operations[i], Missing) # ""}
    IN  IF Len(Operations) = 0
        THEN pc = "failed" /\ error.kind = "EmptyOperations"
        ELSE IF offending # {}
        THEN LET i == CHOOSE x \in offending : \A y \in offending : x <= y
             IN  /\ pc = "failed"
                 /\ error.kind \in {"MissingField", "MissingCellId"}
                 /\ error.index = i
                 /\ error.field = FirstMissing(Operations[i], Missing)
                 /\ error.kind = "MissingCellId" <=> error.field = "cellId"
        ELSE error.kind \notin ValidationErrors

\* C8 as stated: the list is rejected exactly when it is empty or some
\* operation has no sheetName, dataPath or operationType key, or is a
\* replaceAtCell with no cellId key; the error names the lowest offending
\* index and its first missing field; every other list is accepted.
C8_RejectsExactlyAbsent ==
    (pc # "validate" /\ "operations" \in DOMAIN config /\ ConfigFieldsGiven) =>
        ValidationAsClaimed(Absent)

\* C8, amended: the same with "lacks" read as "the field is absent or is the
\* empty string": the list is rejected exactly when it is empty or some
\* operation lacks sheetName, dataPath or operationType, or is a
\* replaceAtCell lacking cellId; the error names the lowest offending index
\* (1-based) and that operation's first missing field in the order
\* sheetName, dataPath, operationType, cellId; every other list is accepted.
C8_RejectsExactlyLacking ==
    (pc # "validate" /\ "operations" \in DOMAIN config /\ ConfigFieldsGiven) =>
        ValidationAsClaimed(Lacks)

\* A valid operation, then one missing both dataPath and operationType, then
\* one missing sheetName: the error cites operation #2 and dataPath.
C8_Witness ==
    /\ pc = "failed"
    /\ Len(Operations) = 3
    /\ Operations[1] = OpSheet1
    /\ Operations[2] = OpOnlySheet
    /\ Operations[3] = OpNoSheet
    /\ error = Err("MissingField", 2, "dataPath")

----------------------------------------------------------------------------
(* C9 *)

\* The operation names a type with every required field given.
HasType(operation) ==
    /\ ~Lacks(operation, "sheetName")
    /\ ~Lacks(operation, "dataPath")
    /\ ~Lacks(operation, "operationType")

UnknownType(operation) ==
    HasType(operation) /\ operation.operationType \notin KnownTypes

\* Validation did not reject the run for an operation of unknown type.
UnknownTypePassesValidation ==
    (pc = "failed" /\ error.kind \in {"MissingField", "MissingCellId"}) =>
        ~UnknownType(Operations[error.index])

----------------------------------------------------------------------------
(* C10 *)

HandleCalls == {FetchCall, ClearCall, UpdateCall}

\* C10: a failure of the spreadsheet handle (registry fetch, clear, write)
\* is fatal and is not retried: the failed call is the last entry the log
\* ever holds, the run has failed with that call's error, no URL is
\* returned, and no remote call is issued twice for one operation.
C10_RemoteFailureFatalNoRetry ==
    /\ \A k \in LogIdx :
          (log[k].call \in HandleCalls /\ log[k].status = "error") =>
              /\ k = Len(log)
              /\ pc = "failed"
              /\ error = Err("RemoteError", log[k].op, log[k].call)
              /\ result = ""
    /\ \A i \in 0..Len(Operations) :
          \A call \in HandleCalls : Count(i, call) <= 1

\* The write of the second operation failed after its clear succeeded and
\* after the first operation was written; a third operation is left.
C10_Witness ==
    /\ Len(Operations) = 3
    /\ HasStatus(1, UpdateCall, "ok")
    /\ HasStatus(2, ClearCall, "ok")
    /\ HasStatus(2, UpdateCall, "error")
    /\ pc = "failed"

----------------------------------------------------------------------------
(* C11 *)

\* The run is inside the loop of processDataOperations.
InDispatch == pc \in {"loop", "dispatch", "clearWait", "sheetUpdateWait", "cellUpdateWait"}

\* Positions of the registry fetch in the log.
FetchEntries == {k \in LogIdx : log[k].call = FetchCall}

\* C11: the registry is fetched exactly once per run of the dispatcher,
\* before the first operation is processed and whatever the number of
\* operations: the log holds at most one fetch, exactly one (settled ok, and
\* ahead of every entry of an operation) once an operation is reached or the
\* run is done; and sheetsMap is never changed while the loop runs.
C11_RegistryFetchedOnce ==
    /\ [](/\ Cardinality(FetchEntries) <= 1
          /\ (InDispatch \/ pc = "done" \/ \E i \in OpIdxs : Started(i)) =>
                 /\ Cardinality(FetchEntries) = 1
                 /\ \A k \in FetchEntries :
                       /\ log[k].status = "ok"
                       /\ \A j \in LogIdx : log[j].op >= 1 => k < j)
    /\ [][InDispatch => sheetsMap' = sheetsMap]_vars

\* Three operations were written and the registry was fetched once.
C11_Witness ==
    /\ pc = "done"
    /\ Len(Operations) = 3
    /\ \A i \in OpIdxs : HasStatus(i, UpdateCall, "ok")
    /\ Cardinality(FetchEntries) = 1

(***************************************************************************)
(* C12: replaceEntireSheet clears the sheet, then writes from the top-left *)
(***************************************************************************)

IsEntireSheetOp(i) ==
    /\ "operationType" \in DOMAIN Operations[i]
    /\ Operations[i].operationType = ReplaceEntireSheetType
IsAtCellOp(i) ==
    /\ "operationType" \in DOMAIN Operations[i]
    /\ Operations[i].operationType = ReplaceAtCellType

EntriesOf(i, call) == {k \in LogIdx : log[k].op = i /\ log[k].call = call}

\* C12: for a replaceEntireSheet operation the whole target sheet is cleared
\* first; only after the clear has succeeded is the loaded data written, with
\* a range that is the bare sheet name (so the write starts at the top-left
\* cell) and in user-entered mode, so the remote side interprets the values.
\* Clear and write are each issued at most once, and an operation that ran to
\* its end has exactly one successful clear followed by one successful write.
C12_ClearThenWrite ==
    \A i \in OpIdxs : IsEntireSheetOp(i) =>
        /\ Count(i, ClearCall) <= 1
        /\ Count(i, UpdateCall) <= 1
        /\ \A k \in EntriesOf(i, ClearCall) :
              /\ log[k].range = SheetRange(Operations[i].sheetName)
              /\ HasStatus(i, ReadCall, "ok")
        /\ \A u \in EntriesOf(i, UpdateCall) :
              /\ \E k \in EntriesOf(i, ClearCall) : k < u /\ log[k].status = "ok"
              /\ log[u].range = SheetRange(Operations[i].sheetName)
              /\ log[u].range.from = Empty /\ log[u].range.to = Empty
              /\ log[u].values = FileRecords(Operations[i].dataPath)
              /\ log[u].valueInputOption = "USER_ENTERED"
        /\ HasStatus(i, ClearCall, "error") => ~Has(i, UpdateCall) /\ FailedAt(i)
        /\ (Finished(i) /\ Has(i, ReadCall)) =>
              /\ HasStatus(i, ClearCall, "ok")
              /\ HasStatus(i, UpdateCall, "ok")

\* Two replaceEntireSheet operations ran to the end, each cleared then written.
C12_Witness ==
    /\ pc = "done"
    /\ Len(Operations) = 2
    /\ \A i \in OpIdxs :
          /\ IsEntireSheetOp(i)
          /\ \E k \in EntriesOf(i, ClearCall), u \in EntriesOf(i, UpdateCall) :
                k < u /\ log[k].status = "ok" /\ log[u].status = "ok"
                /\ log[u].values # Empty

(***************************************************************************)
(* C13: replaceAtCell writes once, into the rectangle from cellId to the   *)
(* end cell, and clears nothing                                            *)
(***************************************************************************)

\* The letters and the digits of a canonical reference.
LettersOf(ref) == SelectSeq(ref, IsUpper)
DigitsPartOf(ref) == SelectSeq(ref, IsDigit)

\* The rectangle of a range given by two canonical corner references, as the
\* set of <<column, row>> pairs it covers.
Rectangle(from, to) ==
    { <<c, r>> \in (ColumnIndex(LettersOf(from))..ColumnIndex(LettersOf(to)))
                   \X (RowIndex(DigitsPartOf(from))..RowIndex(DigitsPartOf(to))) :
        TRUE }

\* The cells the values of a write land in when they are laid out from the
\* anchor: row r of the data, field c of that row.
CellsWritten(anchor, values) ==
    { <<ColumnIndex(LettersOf(anchor)) + c - 1,
        RowIndex(DigitsPartOf(anchor)) + r - 1>> :
        <<r, c>> \in { <<r, c>> \in (1..Len(values)) \X (1..MaxRowLength(values)) :
                         c <= Len(values[r]) } }

\* C13: a replaceAtCell operation issues no clear and at most one write (one
\* exactly once it ran to its end); the write names the operation's own sheet
\* and the range from the anchor cellId to getEndCell(cellId, data); the data
\* written is the loaded data, and every cell it occupies lies inside that
\* rectangle.  No entry of the operation names another sheet.
C13_WriteExactlyRectangle ==
    \A i \in OpIdxs : IsAtCellOp(i) =>
        /\ ~Has(i, ClearCall)
        /\ Count(i, UpdateCall) <= 1
        /\ \A k \in LogIdx :
              (log[k].op = i /\ log[k].range # NoRange) =>
                  log[k].range.sheet = Operations[i].sheetName
        /\ \A u \in EntriesOf(i, UpdateCall) :
              LET values == FileRecords(Operations[i].dataPath)
                  anchor == Operations[i].cellId
                  end    == getEndCell(anchor, values)
              IN  /\ HasStatus(i, ReadCall, "ok")
                  /\ log[u].values = values
                  /\ ~end.threw
                  /\ log[u].range = CellRange(Operations[i].sheetName, anchor, end.cell)
                  /\ log[u].range.from = anchor
                  /\ log[u].range.to = end.cell
                  /\ (IsCanonical(anchor) /\ values # Empty) =>
                        CellsWritten(anchor, values) \subseteq Rectangle(anchor, end.cell)
        /\ (Finished(i) /\ Has(i, ReadCall)) => HasStatus(i, UpdateCall, "ok")

\* A replaceAtCell operation at A1 wrote its two records into A1:B2.
C13_Witness ==
    /\ pc = "done"
    /\ \E i \in OpIdxs :
          /\ IsAtCellOp(i)
          /\ Operations[i].cellId = <<65, 49>>
          /\ \E u \in EntriesOf(i, UpdateCall) :
                /\ log[u].status = "ok"
                /\ log[u].range.to = <<66, 50>>
                /\ Len(log[u].values) = 2

(***************************************************************************)
(* C14: the dispatcher terminates; normal return means every operation was *)
(* attempted                                                               *)
(***************************************************************************)

Terminated == pc \in {"done", "failed"}

\* Operation i was applied (its write succeeded) or skipped (with a warning).
Applied(i) == HasStatus(i, UpdateCall, "ok")
Skipped(i) == Has(i, "warn.sheetNotFound") \/ Has(i, "warn.unknownType")

\* The run failed inside the dispatcher, at operation i.
DispatcherFailedAt(i) ==
    /\ FailedAt(i)
    /\ error.kind \in {"RemoteError", "ReadError", "InvalidCellReference"}
    /\ \E k \in FetchEntries : log[k].status = "ok"

\* C14: when every load and remote call returns, every run terminates.  It
\* returns normally only with every operation of the list passed, each one
\* applied or skipped and never both; a failure inside the dispatcher is at
\* the first failing operation: all earlier ones were applied or skipped,
\* none of them holds a failed call, and no later one was started.
C14_DispatcherTerminates ==
    /\ <>Terminated
    /\ [](pc = "done" =>
            /\ opIdx = Len(Operations) + 1
            /\ \A i \in OpIdxs : Applied(i) # Skipped(i))
    /\ [](\A i \in OpIdxs : DispatcherFailedAt(i) =>
            /\ opIdx = i
            /\ ~Applied(i) /\ ~Skipped(i)
            /\ \A j \in 1..(i - 1) :
                  /\ Applied(j) # Skipped(j)
                  /\ \A k \in LogIdx : log[k].op = j => log[k].status = "ok"
            /\ \A j \in (i + 1)..Len(Operations) : ~Started(j))
    /\ [][Terminated => UNCHANGED vars]_vars

\* A run of three operations returned normally: one skipped, two applied.
C14_Witness ==
    /\ pc = "done"
    /\ Len(Operations) = 3
    /\ Skipped(1) /\ Applied(2) /\ Applied(3)

(***************************************************************************)
(* C15: getEndCell on start references out of canonical form               *)
(***************************************************************************)

\* C15: getEndCell throws for every start reference that is not uppercase
\* letters followed by digits and nothing else (letters or digits absent,
\* digits before letters, lowercase letters, extra characters).
C15_MalformedRejected ==
    (algPc = "done" /\ algIn.fn = "getEndCell" /\ ~IsCanonical(algIn.startCell))
        => algOut.threw

\* C15, in the run: a replaceAtCell operation whose cellId is not in
\* canonical form never issues a write.
C15_MalformedNotWritten ==
    \A i \in OpIdxs :
        (/\ IsAtCellOp(i)
         /\ "cellId" \in DOMAIN Operations[i] => ~IsCanonical(Operations[i].cellId))
            => ~Has(i, UpdateCall)

(***************************************************************************)
(* C16: the end cell of getEndCell is a valid cell reference               *)
(***************************************************************************)

\* Data the loader can yield: any number of records, none, each record with
\* at least one field (empty lines are skipped).
LoaderYields(data) == \A r \in 1..Len(data) : Len(data[r]) >= 1

\* C16: for a canonical start reference and data the loader can yield, the
\* call does not throw and returns a reference in canonical form whose
\* column and row are both at least 1.
C16_EndCellValid ==
    (/\ algPc = "done" /\ algIn.fn = "getEndCell"
     /\ IsCanonical(algIn.startCell) /\ LoaderYields(algIn.data)) =>
        /\ ~algOut.threw
        /\ IsCanonical(algOut.text)
        /\ ColumnIndex(LettersOf(algOut.text)) >= 1
        /\ RowIndex(DigitsPartOf(algOut.text)) >= 1

(***************************************************************************)
(* C17: getColumnLetter below 1                                            *)
(***************************************************************************)

\* C17: getColumnLetter fails for every number below 1 and returns no letter
\* string for it.
C17_BelowOneRejected ==
    (algIn.fn = "getColumnLetter" /\ algIn.number < 1 /\ algPc \in {"back", "done"})
        => algOut.threw

(***************************************************************************)
(* C18: the sheet lookup precedes the data load                            *)
(***************************************************************************)

\* C18: an operation whose sheet name is not found is skipped with a warning
\* and has no data load at all, so the run does not fail at it whatever its
\* data file is: the loop goes on to the next operation, and the data held by
\* the loop is not touched by the skip.
C18_SkipBeforeLoad ==
    /\ [](\A i \in OpIdxs :
            (/\ \E k \in FetchEntries : log[k].status = "ok"
             /\ ~SheetFound(sheetsMap, Operations[i].sheetName)) =>
                /\ ~Has(i, ReadCall)
                /\ ~FailedAt(i)
                /\ Started(i) => Has(i, "warn.sheetNotFound"))
    /\ [](\A i \in OpIdxs : Has(i, "warn.sheetNotFound") =>
            /\ ~Has(i, ReadCall)
            /\ ~Has(i, ClearCall) /\ ~Has(i, UpdateCall)
            /\ Count(i, "warn.sheetNotFound") = 1
            /\ ~FailedAt(i)
            /\ Finished(i))
    /\ [][\A i \in OpIdxs :
            (~Has(i, "warn.sheetNotFound") /\ Has(i, "warn.sheetNotFound")') =>
                /\ pc = "loop" /\ pc' = "loop"
                /\ opIdx = i /\ opIdx' = i + 1
                /\ error' = error /\ csvData' = csvData]_vars

\* An operation on a missing sheet with an unreadable data file was skipped,
\* and the operation after it was then loaded and written.
C18_Witness ==
    /\ pc = "done"
    /\ Len(Operations) >= 2
    /\ Operations[1] = OpMissingBad
    /\ Has(1, "warn.sheetNotFound")
    /\ HasStatus(2, ReadCall, "ok")
    /\ HasStatus(2, UpdateCall, "ok")

(***************************************************************************)
(* C20: columnToNumber on strings that are not runs of uppercase letters   *)
(***************************************************************************)

StageOf(entry) ==
    IF entry.call = "drive.files.copy" THEN 1
    ELSE IF entry.call \in {"drive.files.get", "drive.files.update"} THEN 2
    ELSE IF entry.call = "drive.permissions.create" THEN 3
    ELSE IF entry.call = FetchCall THEN 4
    ELSE 5

\* The calls a stage is made of.
StageCalls(stage) ==
    IF stage = 1 THEN {"drive.files.copy"}
    ELSE IF stage = 2 THEN {"drive.files.get", "drive.files.update"}
    ELSE IF stage = 3 THEN {"drive.permissions.create"}
    ELSE {FetchCall}

\* Every call of the stage was made once and succeeded.
StageSucceeded(stage) ==
    \A call \in StageCalls(stage) :
        /\ Cardinality({k \in LogIdx : log[k].call = call}) = 1
        /\ \E k \in LogIdx : log[k].call = call /\ log[k].status = "ok"

\* C19: the stages run in the order validate, copy, move, share, fetch,
\* operations.  Nothing is called unless validation passed; a stage starts
\* only when every earlier stage succeeded, and an entry that is not the
\* last of the log is a success, so a failure ends the run; in particular a
\* clear or a write is issued only after copy, move and share succeeded.
\* What was done stays done: settled entries and the copied file are never
\* changed or removed.  The URL is returned only by a run that is done with
\* every stage succeeded and no error.
C19_StagesInOrder ==
    /\ [](/\ log # Empty => validateConfig(config) = NoError
          /\ \A j, k \in LogIdx : j < k => StageOf(log[j]) <= StageOf(log[k])
          /\ \A k \in LogIdx :
                /\ k < Len(log) => log[k].status = "ok"
                /\ \A stage \in 1..(StageOf(log[k]) - 1) : StageSucceeded(stage)
                /\ log[k].call \in {ClearCall, UpdateCall} =>
                      StageSucceeded(1) /\ StageSucceeded(2) /\ StageSucceeded(3)
          /\ pc = "failed" => result = ""
          /\ result # "" =>
                /\ pc = "done"
                /\ error = NoError
                /\ validateConfig(config) = NoError
                /\ \A stage \in 1..4 : StageSucceeded(stage)
                /\ \A k \in LogIdx : log[k].status = "ok"
                /\ opIdx = Len(Operations) + 1)
    /\ [][/\ Len(log') >= Len(log)
          /\ \A k \in LogIdx : log[k].status # "pending" => log'[k] = log[k]
          /\ \A k \in LogIdx : log'[k].call = log[k].call
          /\ newFile # "" => newFile' = newFile]_vars

\* The share failed after copy and move had succeeded: the run ended there
\* with the copied file in place, no sheet list fetched and no URL.
C19_Witness ==
    /\ pc = "failed"
    /\ error.field = "drive.permissions.create"
    /\ StageSucceeded(1) /\ StageSucceeded(2)
    /\ newFile # ""
    /\ ~\E k \in LogIdx : StageOf(log[k]) >= 4
    /\ result = ""
    /\ Len(Operations) >= 1

====
